---- MODULE Spec2Model ----
(***************************************************************************)
(* Signaling core of the peer server: the connection gateway               *)
(* (SocketIOServer and its raw-socket twin), the Realm registry, the       *)
(* liveness sweeper (CheckBrokenConnections), the queue expirer and the    *)
(* wiring of createInstance.                                               *)
(***************************************************************************)
EXTENDS Integers, Sequences, FiniteSets, TLC

\* ---------------------------------------------------------------- bounds
MaxSockets == 2          \* transport connections accepted in one run
MaxQueue == 2            \* longest pending queue explored
MaxTicks == 2            \* clock ticks explored
MaxFrames == 2           \* inbound data frames and server errors in one run
MaxTimers == 3           \* timeouts the sweeper sets in one run

\* ------------------------------------------------------ program constants
DEFAULT_CHECK_INTERVAL == 300

\* the clock advances in half intervals
Step == DEFAULT_CHECK_INTERVAL \div 2
MaxTime == MaxTicks * Step

\* configuration inputs that the core only reads
ServerTypes == {"socketio", "websocket"}
Limits == {0, 1, 2}
ConfigKey == "peerjs"
AliveTimeouts == {DEFAULT_CHECK_INTERVAL}
expire_timeout == Step
cleanup_out_msgs == 2 * Step

\* ------------------------------------------------------------ value sets
Handles == 1..MaxSockets
Ids == {1, 2}                      \* ids a peer can present in its handshake
NoId == 0
Tokens == {"t1", "t2"}
Payloads == {"p", "q"}

\* socket.io gives every connection an id of its own, which no peer can
\* present before that connection exists
SocketId(h) == Cardinality(Ids) + h

AllIds == Ids \cup {SocketId(h) : h \in Handles}

\* a routed message, and what a data frame carries on the wire
NoMessage == [src |-> NoId, dst |-> NoId, payload |-> ""]
WireObjects == [kind : {"object"}, src : {NoId, 2}, dst : AllIds,
                payload : Payloads]
WireOther == {[kind |-> k, src |-> NoId, dst |-> NoId, payload |-> ""] :
                k \in {"number", "null"}}
WireValues == WireObjects \cup WireOther
\* a frame is a structured value, or a text that serializes one, or a text
\* that is no JSON at all; structured objects carry payload "p" and no src,
\* serialized ones payload "q" and the src of another peer
Frames == {f \in [form : {"structured", "text"}, json : {TRUE},
                  value : WireValues] :
              /\ f.value.kind = "object" =>
                    /\ f.value.payload = (IF f.form = "text" THEN "q" ELSE "p")
                    /\ f.value.src = (IF f.form = "text" THEN 2 ELSE NoId)
              /\ f.value.kind = "number" => f.form = "structured"}
          \cup {[form |-> "text", json |-> FALSE,
                  value |-> [kind |-> "null", src |-> NoId, dst |-> NoId,
                             payload |-> ""]]}
NoFrame == [form |-> "", json |-> FALSE,
            value |-> [kind |-> "null", src |-> NoId, dst |-> NoId,
                       payload |-> ""]]

\* handshake parameters: any id, or none, with the right key and one
\* token; for id 1 also the other token and no token; and one handshake
\* each with a wrong and with a missing key
Queries == [id : AllIds \cup {NoId}, token : {"t1"}, key : {ConfigKey}]
           \cup [id : {1}, token : Tokens \cup {""}, key : {ConfigKey}]
           \cup [id : {1}, token : {"t1"}, key : {"wrong", ""}]

NoQuery == [id |-> NoId, token |-> "", key |-> ""]
NullClient == [id |-> NoId, token |-> "", socket |-> 0, lastPing |-> 0]
NewSocket == [st |-> "unused", client |-> 0]
CloseMark == [type |-> "close", msg |-> ""]

VARIABLES
    config,       \* server_type, concurrent_limit, key, alive_timeout
    now,          \* wall clock
    socks,        \* transport handles: state and the Client its listeners hold
    recs,         \* Client objects, by reference
    clients,      \* Realm: id -> reference of the registered Client (0: none)
    queues,       \* Realm: id -> pending queue of <<message, enqueue time>>
    sweeper,      \* CheckBrokenConnections: timeoutId (0: null), the number
                  \* of timeouts it has set, and whether its caller's
                  \* latest call was stop()
    timers,       \* the sweeper's pending timeouts: [id, due]
    errorListeners, \* listeners of the socket server's `error` event
    expirer,      \* MessagesExpire: due time of the next pass
    disconnects,  \* application `disconnect` events seen, per Client object
    nframes,      \* inbound data frames and server errors received so far
    last          \* what the latest handler did (inputs, emitted events)

vars == <<config, now, socks, recs, clients, queues, sweeper, timers,
          errorListeners, expirer, disconnects, nframes, last>>

\* ------------------------------------------------------------------ Realm
getClientById(id) == clients[id]

getClientsIds == {id \in AllIds : clients[id] # 0}

setClient(cl, ref, id) == [cl EXCEPT ![id] = ref]

removeClientById(cl, id) == [cl EXCEPT ![id] = 0]

clearMessageQueue(qs, id) == [qs EXCEPT ![id] = <<>>]

addMessageToQueue(qs, id, m) ==
    [qs EXCEPT ![id] = Append(@, [message |-> m, at |-> now])]

\* MessageQueue.readMessage, called until the queue is empty
RECURSIVE readMessages(_)
readMessages(q) ==
    IF q = <<>> THEN <<>> ELSE <<Head(q).message>> \o readMessages(Tail(q))

\* ----------------------------------------------------------------- events
\* one entry of the trace of a handler: an event emitted by the gateway
\* ("connection", "message", "close", "error"), an event emitted on the
\* application ("app.connection", ...), or a call of messageHandler.handle
Ev(name, client, message) == [name |-> name, client |-> client, message |-> message]

Quiet == [op |-> "init", h |-> 0, query |-> NoQuery, id |-> NoId,
          outcome |-> "", frame |-> NoFrame, out |-> <<>>, trace |-> <<>>,
          evicted |-> {}]

\* ------------------------------------------------- sweeper: start, stop
NoTimer == 0

clearTimeout(ts, id) == {t \in ts : t.id # id}

setTimeout(ts, id, delay) == ts \cup {[id |-> id, due |-> now + delay]}

\* start(): cancel the timeout that timeoutId names, if any, and set a new
\* one; the result is the sweeper and the pending timeouts
start(sw, ts) ==
    LET pending == IF sw.timeoutId # NoTimer THEN clearTimeout(ts, sw.timeoutId)
                   ELSE ts
        id == sw.made + 1
    IN  [sweeper |-> [sw EXCEPT !.timeoutId = id, !.made = id],
         timers |-> setTimeout(pending, id, DEFAULT_CHECK_INTERVAL)]

stop(sw, ts) ==
    IF sw.timeoutId # NoTimer
    THEN [sweeper |-> [sw EXCEPT !.timeoutId = NoTimer],
          timers |-> clearTimeout(ts, sw.timeoutId)]
    ELSE [sweeper |-> sw, timers |-> ts]

\* a sweeper that was constructed and not started
Constructed == [timeoutId |-> NoTimer, made |-> 0, stopped |-> FALSE]

\* ------------------------------------------------------------------- Init
Init ==
    /\ config \in [server_type : ServerTypes, concurrent_limit : Limits,
                   key : {ConfigKey}, alive_timeout : AliveTimeouts]
    /\ now = 0
    /\ socks = [h \in Handles |-> NewSocket]
    /\ recs = [r \in Handles |-> NullClient]
    /\ clients = [id \in AllIds |-> 0]
    /\ queues = [id \in AllIds |-> <<>>]
    /\ sweeper = IF config.server_type # "socketio"
                 THEN start(Constructed, {}).sweeper ELSE Constructed
    /\ timers = IF config.server_type # "socketio"
                THEN start(Constructed, {}).timers ELSE {}
    /\ errorListeners = 1
    /\ expirer = cleanup_out_msgs
    /\ disconnects = [r \in Handles |-> 0]
    /\ nframes = 0
    /\ last = Quiet

\* ---------------------------------------------------------------- gateway
\* the ids a peer can name when connection h is made: the ids peers choose
\* and, under socket.io, the ids given to the connections made so far
knownIds(h) ==
    Ids \cup (IF config.server_type = "socketio"
              THEN {SocketId(g) : g \in {x \in Handles : x < h}} ELSE {})

\* the id the handshake is carried out for
socketioId(h, q) == SocketId(h)

webSocketId(h, q) == q.id

handshakeId(h, q) ==
    IF config.server_type = "socketio" THEN socketioId(h, q) ELSE webSocketId(h, q)

invalidParameters(id, token, key) == id = NoId \/ token = "" \/ key = ""

invalidKey(key) == key # config.key

tokenMismatch(token, r) == token # recs[r].token

limitExceedOffByOne(clientsCount) == clientsCount > config.concurrent_limit

limitExceed(clientsCount) == clientsCount >= config.concurrent_limit

handshakeOutcome(id, q) ==
    IF invalidParameters(id, q.token, q.key) THEN "InvalidParameters"
    ELSE IF invalidKey(q.key) THEN "InvalidKey"
    ELSE IF getClientById(id) # 0
         THEN IF tokenMismatch(q.token, getClientById(id))
              THEN "ID_TAKEN" ELSE "reconnect"
    ELSE IF limitExceed(Cardinality(getClientsIds))
         THEN "ConnectionLimitExceeded" ELSE "new"

Rejections == {"InvalidParameters", "InvalidKey", "ID_TAKEN",
               "ConnectionLimitExceeded"}

\* what a handshake writes to its peer: socket.emit("message", ...) and
\* socket.disconnect(), in the order of the calls
sendErrorLeaveOpen(msg) == <<[type |-> "ERROR", msg |-> msg]>>

sendErrorAndClose(msg) == <<[type |-> "ERROR", msg |-> msg], CloseMark>>

sendIdTaken == <<[type |-> "ID-TAKEN", msg |-> "ID is taken"], CloseMark>>

sendOpen == <<[type |-> "OPEN", msg |-> ""]>>

\* a handle that was closed before any listener was installed on it
Rejected == [st |-> "closed", client |-> 0]

connectionListenerNoDrain(r, id) == <<Ev("app.connection", r, NoMessage)>>

\* createInstance: the listener of the gateway's `connection` event hands
\* the queued messages to the message handler, then tells the application
connectionListener(r, id) ==
    LET drained == readMessages(queues[id])
    IN  [i \in 1..Len(drained) |-> Ev("handle", r, drained[i])]
        \o <<Ev("app.connection", r, NoMessage)>>

\* _configureSocket: attach the handle, install the listeners, emit
configureSocket(h, r, id, rc) ==
    /\ recs' = [rc EXCEPT ![r].socket = h]
    /\ socks' = [socks EXCEPT ![h] = [st |-> "open", client |-> r]]
    /\ queues' = clearMessageQueue(queues, id)

configureTrace(r, id) ==
    <<Ev("connection", r, NoMessage)>> \o connectionListener(r, id)

\* socket.io: every connection adds a listener of the server's `error`
\* event, before its handshake is looked at
addErrorListener(n) == IF config.server_type = "socketio" THEN n + 1 ELSE n

onSocketConnection(h, q) ==
    LET id == handshakeId(h, q)
        outcome == handshakeOutcome(id, q)
        note(out, tr) == [Quiet EXCEPT !.op = "handshake", !.h = h, !.query = q,
                                       !.id = id, !.outcome = outcome,
                                       !.out = out, !.trace = tr]
    IN  /\ socks[h].st = "unused"
        /\ \A g \in Handles : g < h => socks[g].st # "unused"
        /\ CASE outcome = "ID_TAKEN" ->
                  /\ socks' = [socks EXCEPT ![h] = Rejected]
                  /\ last' = note(sendIdTaken, <<>>)
                  /\ UNCHANGED <<recs, clients, queues>>
             [] outcome = "reconnect" ->
                  /\ configureSocket(h, getClientById(id), id, recs)
                  /\ last' = note(<<>>, configureTrace(getClientById(id), id))
                  /\ UNCHANGED clients
             [] outcome = "new" ->
                  /\ clients' = setClient(clients, h, id)
                  /\ configureSocket(h, h, id,
                        [recs EXCEPT ![h] = [id |-> id, token |-> q.token,
                                             socket |-> 0, lastPing |-> now]])
                  /\ last' = note(sendOpen, configureTrace(h, id))
             [] OTHER ->
                  /\ socks' = [socks EXCEPT ![h] = Rejected]
                  /\ last' = note(sendErrorAndClose(outcome), <<>>)
                  /\ UNCHANGED <<recs, clients, queues>>
        /\ errorListeners' = addErrorListener(errorListeners)
        /\ UNCHANGED <<config, now, sweeper, timers, expirer, disconnects,
                       nframes>>

\* a connection is made on the next unused handle, with any handshake
Handshake ==
    \E h \in Handles :
        /\ socks[h].st = "unused"
        /\ \E q \in Queries :
              /\ q.id \in knownIds(h) \cup {NoId}
              /\ onSocketConnection(h, q)

\* ------------------------------------------------------- message handling
\* JSON.parse of a text frame: the value it serializes, or a SyntaxError
JSONparse(f) == IF f.json THEN [ok |-> TRUE, value |-> f.value]
                ELSE [ok |-> FALSE, value |-> f.value]

\* the listener's `typeof data === "string"` branch
decode(f) == IF f.form = "text" THEN JSONparse(f)
             ELSE [ok |-> TRUE, value |-> f.value]

\* `message.src = client.getId()`: a TypeError on null and, the module being
\* strict code, on a primitive
stampSrcKeepWire(v, r) ==
    IF v.kind = "object"
    THEN [ok |-> TRUE,
          message |-> [src |-> IF v.src # NoId THEN v.src ELSE recs[r].id,
                       dst |-> v.dst, payload |-> v.payload]]
    ELSE [ok |-> FALSE, message |-> NoMessage]

stampSrc(v, r) ==
    IF v.kind = "object"
    THEN [ok |-> TRUE,
          message |-> [src |-> recs[r].id, dst |-> v.dst, payload |-> v.payload]]
    ELSE [ok |-> FALSE, message |-> NoMessage]

parseFrame(f, r) ==
    IF decode(f).ok THEN stampSrc(decode(f).value, r)
    ELSE [ok |-> FALSE, message |-> NoMessage]

catchSilently(r) == <<>>

\* the listener's catch block, and createInstance's `error` listener
catchError(r) == <<Ev("error", r, NoMessage), Ev("app.error", r, NoMessage)>>

\* Router: the destination holds a live transport handle. A message for
\* such a destination is forwarded to it; a message for a destination that
\* is offline is put on its pending queue, to be drained when it connects
isLive(id) == clients[id] # 0 /\ recs[clients[id]].socket # 0

\* inbound activity advances the identity's lastSeen
touch(r) == [recs EXCEPT ![r].lastPing = now]

\* createInstance: the listener of the gateway's `message` event
messageListener(r, m) ==
    <<Ev("app.message", r, m), Ev("handle", r, m)>>

onMessage(h, f) ==
    LET r == socks[h].client
        parsed == parseFrame(f, r)
        m == parsed.message
        note(tr) == [Quiet EXCEPT !.op = "frame", !.h = h, !.frame = f,
                                  !.id = recs[r].id, !.trace = tr,
                                  !.outcome = IF parsed.ok THEN "message"
                                              ELSE "error"]
    IN  /\ socks[h].st = "open"
        /\ r # 0
        /\ nframes < MaxFrames
        /\ nframes' = nframes + 1
        /\ IF parsed.ok
           THEN /\ last' = note(<<Ev("message", r, m)>> \o messageListener(r, m))
                /\ recs' = touch(r)
                /\ IF isLive(m.dst)
                   THEN UNCHANGED queues
                   ELSE /\ Len(queues[m.dst]) < MaxQueue
                        /\ queues' = addMessageToQueue(queues, m.dst, m)
           ELSE /\ last' = note(catchError(r))
                /\ UNCHANGED <<recs, queues>>
        /\ UNCHANGED <<config, now, socks, clients, sweeper, timers,
                       errorListeners, expirer, disconnects>>

\* a frame arrives on an open handle
Frame ==
    /\ nframes < MaxFrames
    /\ \E h \in Handles :
          /\ socks[h].st = "open"
          /\ \E f \in Frames :
                /\ f.value.kind = "object" =>
                      f.value.dst \in knownIds(MaxSockets + 1)
                /\ f.value.kind = "object" /\ f.value.dst \notin Ids
                      => socks[f.value.dst - Cardinality(Ids)].st # "unused"
                /\ onMessage(h, f)

\* ------------------------------------------------------------- disconnect
ownsAnySocket(r, h) == recs[r].socket # 0

\* the guard of the disconnect listener
ownsSocket(r, h) == recs[r].socket = h

onDisconnect(h) ==
    LET r == socks[h].client
        note(o, tr) == [Quiet EXCEPT !.op = "disconnect", !.h = h, !.outcome = o,
                                     !.id = IF r = 0 THEN NoId ELSE recs[r].id,
                                     !.trace = tr]
    IN  /\ socks[h].st \in {"open", "closing"}
        /\ socks' = [socks EXCEPT ![h].st = "closed"]
        /\ IF r # 0 /\ ownsSocket(r, h)
           THEN /\ clients' = removeClientById(clients, recs[r].id)
                /\ queues' = clearMessageQueue(queues, recs[r].id)
                /\ recs' = [recs EXCEPT ![r].socket = 0]
                /\ disconnects' = [disconnects EXCEPT ![r] = @ + 1]
                /\ last' = note("close", <<Ev("close", r, NoMessage),
                                           Ev("app.disconnect", r, NoMessage)>>)
           ELSE /\ last' = note("ignored", <<>>)
                /\ UNCHANGED <<clients, queues, recs, disconnects>>
        /\ UNCHANGED <<config, now, sweeper, timers, errorListeners, expirer,
                       nframes>>

Disconnect == \E h \in Handles : onDisconnect(h)

\* ---------------------------------------------------------------- sweeper
isStaleStrictly(id) == now - recs[clients[id]].lastPing > config.alive_timeout

isStale(id) == now - recs[clients[id]].lastPing >= config.alive_timeout

\* the ids a pass evicts when nothing interrupts it
staleIds == {id \in getClientsIds : isStale(id)}

\* Realm.getClientsIds(): the registered ids in the order of their
\* registration, which is the order of their records
RECURSIVE inOrder(_)
inOrder(ids) ==
    IF ids = {} THEN <<>>
    ELSE LET first == CHOOSE i \in ids : \A j \in ids : clients[i] <= clients[j]
         IN  <<first>> \o inOrder(ids \ {first})

clientsIds == inOrder(getClientsIds)

\* calls of the sweeper's interface by its caller
callStart(sw, ts) ==
    [start(sw, ts) EXCEPT !.sweeper.stopped = FALSE]

callStop(sw, ts) ==
    [stop(sw, ts) EXCEPT !.sweeper.stopped = TRUE]

\* what the code that receives the close callback does with the sweeper
Calls == {"none", "start", "stop"}

\* the state a pass works on
Working ==
    [socks |-> socks, recs |-> recs, clients |-> clients, queues |-> queues,
     disconnects |-> disconnects, sweeper |-> sweeper, timers |-> timers,
     evicted |-> {}, trace |-> <<>>, thrown |-> FALSE]

\* socket.close(): the transport starts closing, its close event comes later
closeSocket(sk, h) ==
    IF h # 0 /\ sk[h].st = "open" THEN [sk EXCEPT ![h].st = "closing"] ELSE sk

keepSocket(rc, r) == rc

\* client.setSocket(null)
setSocketNull(rc, r) == [rc EXCEPT ![r].socket = 0]

\* onClose(client): createInstance emits the application's `disconnect`;
\* call is what the receiver of the callback does then
onClose(S, r, call) ==
    LET told == [S EXCEPT !.disconnects[r] = @ + 1,
                          !.trace = Append(@, Ev("app.disconnect", r, NoMessage))]
        api == IF call = "start" THEN callStart(told.sweeper, told.timers)
               ELSE IF call = "stop" THEN callStop(told.sweeper, told.timers)
               ELSE [sweeper |-> told.sweeper, timers |-> told.timers]
    IN  [told EXCEPT !.sweeper = api.sweeper, !.timers = api.timers]

\* the try and finally blocks for one stale id; throws: closing the
\* transport raises an error, which leaves the loop after the finally block
evict(S, id, throws, call) ==
    LET r == S.clients[id]
        h == S.recs[r].socket
        thrown == throws /\ h # 0
        tried == [S EXCEPT !.socks = IF thrown THEN @ ELSE closeSocket(@, h),
                           !.thrown = thrown]
        cleaned == [tried EXCEPT
                      !.queues = clearMessageQueue(@, id),
                      !.clients = removeClientById(@, id),
                      !.recs = setSocketNull(@, r),
                      !.evicted = @ \cup {id},
                      !.trace = Append(@, Ev("removeClientById", r, NoMessage))]
    IN  onClose(cleaned, r, call)

\* the loop over the snapshot of the ids
RECURSIVE forEachClientId(_, _, _, _)
forEachClientId(ids, S, throws, calls) ==
    IF ids = <<>> \/ S.thrown THEN S
    ELSE forEachClientId(Tail(ids),
            IF S.clients[Head(ids)] = 0 \/ ~isStale(Head(ids)) THEN S
            ELSE evict(S, Head(ids), Head(ids) \in throws, calls[Head(ids)]),
            throws, calls)

checkConnections(S, throws, calls) == forEachClientId(clientsIds, S, throws, calls)

\* the timer callback set by start(): run a pass, then timeoutId = null and
\* start(); an error raised in the pass ends the callback there
timerCallback(t, throws, calls) ==
    LET pass == checkConnections([Working EXCEPT !.timers = @ \ {t}],
                                 throws, calls)
        rearmed == start([pass.sweeper EXCEPT !.timeoutId = NoTimer], pass.timers)
        done == IF pass.thrown THEN pass
                ELSE [pass EXCEPT !.sweeper = rearmed.sweeper,
                                  !.timers = rearmed.timers]
    IN  /\ now >= t.due
        /\ done.sweeper.made <= MaxTimers
        /\ socks' = done.socks
        /\ recs' = done.recs
        /\ clients' = done.clients
        /\ queues' = done.queues
        /\ disconnects' = done.disconnects
        /\ sweeper' = done.sweeper
        /\ timers' = done.timers
        /\ last' = [Quiet EXCEPT !.op = "sweep", !.evicted = done.evicted,
                                 !.trace = done.trace,
                                 !.outcome = IF done.thrown THEN "thrown"
                                             ELSE "done"]
        /\ UNCHANGED <<config, now, errorListeners, expirer, nframes>>

\* createInstance: the transports close without raising, and the listeners
\* of the application's `disconnect` do not hold the sweeper
SweepTimer ==
    \E t \in timers : timerCallback(t, {}, [id \in staleIds |-> "none"])

\* the sweeper under a caller that uses all of its interface, with
\* transports whose close can raise
SweepAny ==
    \E t \in timers, throws \in SUBSET staleIds, calls \in [staleIds -> Calls] :
        timerCallback(t, throws, calls)

Start ==
    /\ sweeper.made < MaxTimers
    /\ sweeper' = callStart(sweeper, timers).sweeper
    /\ timers' = callStart(sweeper, timers).timers
    /\ last' = [Quiet EXCEPT !.op = "start"]
    /\ UNCHANGED <<config, now, socks, recs, clients, queues, errorListeners,
                   expirer, disconnects, nframes>>

Stop ==
    /\ sweeper' = callStop(sweeper, timers).sweeper
    /\ timers' = callStop(sweeper, timers).timers
    /\ last' = [Quiet EXCEPT !.op = "stop"]
    /\ UNCHANGED <<config, now, socks, recs, clients, queues, errorListeners,
                   expirer, disconnects, nframes>>

\* ----------------------------------------------------------- server error
\* _onSocketError, and createInstance's `error` listener
onSocketError == <<Ev("error", 0, NoMessage), Ev("app.error", 0, NoMessage)>>

\* the socket server emits `error`: each of its listeners runs
RECURSIVE emitError(_)
emitError(listeners) ==
    IF listeners = 0 THEN <<>> ELSE onSocketError \o emitError(listeners - 1)

SocketError ==
    /\ nframes < MaxFrames
    /\ nframes' = nframes + 1
    /\ last' = [Quiet EXCEPT !.op = "socketerror",
                             !.trace = emitError(errorListeners)]
    /\ UNCHANGED <<config, now, socks, recs, clients, queues, sweeper, timers,
                   errorListeners, expirer, disconnects>>

\* ---------------------------------------------------------------- expirer
expired(e) == now - e.at > expire_timeout

pruneOutstanding(q) == SelectSeq(q, LAMBDA e : ~expired(e))

ExpireTimer ==
    /\ now >= expirer
    /\ queues' = [id \in AllIds |-> pruneOutstanding(queues[id])]
    /\ expirer' = now + cleanup_out_msgs
    /\ last' = [Quiet EXCEPT !.op = "expire"]
    /\ UNCHANGED <<config, now, socks, recs, clients, sweeper, timers,
                   errorListeners, disconnects, nframes>>

\* ------------------------------------------------------------------ clock
\* time passes; a timer that is due runs before the clock moves on
Tick ==
    /\ now + Step <= MaxTime
    /\ \A t \in timers : now < t.due
    /\ now < expirer
    /\ now' = now + Step
    /\ last' = [Quiet EXCEPT !.op = "tick"]
    /\ UNCHANGED <<config, socks, recs, clients, queues, sweeper, timers,
                   errorListeners, expirer, disconnects, nframes>>

Next ==
    \/ Handshake
    \/ Frame
    \/ Disconnect
    \/ SweepTimer
    \/ ExpireTimer
    \/ SocketError
    \/ Tick

Spec == Init /\ [][Next]_vars

\* the sweeper in a server with the raw-socket gateway, under a caller
\* that starts and stops it at any time, also from the close callback
SweeperInit ==
    /\ Init
    /\ config.server_type = "websocket"
    /\ config.concurrent_limit = MaxSockets

\* the peers make well-formed handshakes with one token, hence new
\* registrations and reconnects, and send well-formed structured frames
PlainHandshake ==
    \E h \in Handles :
        /\ socks[h].st = "unused"
        /\ \E q \in Queries :
              /\ q.id \in Ids /\ q.token = "t1" /\ q.key = ConfigKey
              /\ onSocketConnection(h, q)

PlainFrame ==
    /\ nframes < MaxFrames
    /\ \E h \in Handles :
          /\ socks[h].st = "open"
          /\ \E f \in Frames :
                /\ f.form = "structured" /\ f.value.kind = "object"
                /\ f.value.src = NoId /\ f.value.dst \in Ids
                /\ onMessage(h, f)

SweeperNext ==
    \/ PlainHandshake
    \/ PlainFrame
    \/ Disconnect
    \/ SweepAny
    \/ Start
    \/ Stop
    \/ Tick

SweeperSpec == SweeperInit /\ [][SweeperNext]_vars

\* ================================================================= claims
IsHandshake(l) == l.op = "handshake"
Accepted(l) == IsHandshake(l) /\ l.outcome \in {"new", "reconnect"}
Named(tr, names) == SelectSeq(tr, LAMBDA e : e.name \in names)
Handled(tr) == [i \in 1..Len(Named(tr, {"handle"})) |->
                    Named(tr, {"handle"})[i].message]
Count(seq, x) == Cardinality({i \in 1..Len(seq) : seq[i] = x})

\* C1: in every reachable state the number of identities registered in the
\* Realm is at most concurrent_limit (so none is registered when the limit
\* is 0), and every registered id maps to one record of its own, which
\* carries that id.
C1_RegistryWithinLimit ==
    /\ Cardinality(getClientsIds) <= config.concurrent_limit
    /\ \A id \in getClientsIds : recs[clients[id]].id = id
    /\ \A i, j \in getClientsIds : clients[i] = clients[j] => i = j

C1_Witness ==
    /\ IsHandshake(last)
    /\ last.outcome = "ConnectionLimitExceeded"
    /\ config.concurrent_limit >= 1
    /\ Cardinality(getClientsIds) = config.concurrent_limit

\* C2: a handshake the gateway rejects writes exactly one control message
\* to its peer and then closes the transport; the message names the reason
\* (ERROR InvalidParameters for a missing parameter, ERROR InvalidKey for
\* a key other than the configured one, ID-TAKEN for a registered id with
\* another token, ERROR ConnectionLimitExceeded for a new id at the limit);
\* the registry is unchanged and no event is emitted.
C2_Control(outcome) ==
    IF outcome = "ID_TAKEN" THEN [type |-> "ID-TAKEN", msg |-> "ID is taken"]
    ELSE [type |-> "ERROR", msg |-> outcome]

C2_Reason(l) ==
    LET q == l.query
        missing == l.id = NoId \/ q.token = "" \/ q.key = ""
        known == clients[l.id] # 0
    IN  IF missing THEN "InvalidParameters"
        ELSE IF q.key # ConfigKey THEN "InvalidKey"
        ELSE IF known /\ recs[clients[l.id]].token # q.token THEN "ID_TAKEN"
        ELSE IF ~known /\ Cardinality({i \in AllIds : clients[i] # 0})
                            >= config.concurrent_limit
             THEN "ConnectionLimitExceeded"
        ELSE "accepted"

C3_ReconnectSucceeds ==
    [][(/\ IsHandshake(last')
        /\ last'.query.key = config.key
        /\ last'.query.id # NoId
        /\ last'.query.token # ""
        /\ clients[last'.query.id] # 0
        /\ recs[clients[last'.query.id]].token = last'.query.token)
       => LET r == clients[last'.query.id]
          IN  /\ recs'[r].socket = last'.h
              /\ clients' = clients
              /\ Count(last'.trace, Ev("connection", r, NoMessage)) = 1]_vars

\* C4: a handshake with the configured key that presents a registered id
\* and a token other than the stored one is answered ID-TAKEN, and the
\* existing record, its transport and its queue stay as they were.
C4_IdTaken ==
    [][(/\ IsHandshake(last')
        /\ last'.query.key = config.key
        /\ last'.query.id # NoId
        /\ last'.query.token # ""
        /\ clients[last'.query.id] # 0
        /\ recs[clients[last'.query.id]].token # last'.query.token)
       => LET r == clients[last'.query.id]
          IN  /\ last'.out = <<[type |-> "ID-TAKEN", msg |-> "ID is taken"],
                               CloseMark>>
              /\ recs'[r] = recs[r]
              /\ clients' = clients
              /\ queues'[last'.query.id] = queues[last'.query.id]
              /\ recs[r].socket # 0 =>
                    socks'[recs[r].socket] = socks[recs[r].socket]]_vars

\* C5: when a handshake presenting id i succeeds, the messages pending for
\* i are handed to the message handler once each, in enqueue order, before
\* the application's `connection` event, and the queue of i is empty
\* afterwards.
C5_DrainOnConnect ==
    [][(Accepted(last') /\ last'.query.id # NoId)
       => /\ Handled(last'.trace) = readMessages(queues[last'.query.id])
          /\ queues'[last'.query.id] = <<>>
          /\ last'.trace[Len(last'.trace)].name = "app.connection"]_vars

\* C6: the drain performed when a destination connects hands over no
\* message that has been queued for longer than the queue TTL.
C6_Fresh(q) == SelectSeq(q, LAMBDA e : now - e.at <= expire_timeout)

C6_NoExpiredDelivery ==
    [][Accepted(last')
       => \A i \in 1..Len(Handled(last'.trace)) :
            Count(Handled(last'.trace), Handled(last'.trace)[i])
              <= Count(readMessages(C6_Fresh(queues[last'.id])),
                       Handled(last'.trace)[i])]_vars

\* C7: under either server_type a registered identity whose lastSeen is
\* alive_timeout or more in the past has a sweep pass ahead of it, and a
\* state left by a sweep pass holds no such identity: the pass removed it
\* with its queue, closed its transport and called the close callback once.
C7_StaleEvicted ==
    /\ \A id \in getClientsIds :
          now - recs[clients[id]].lastPing >= config.alive_timeout
             => timers # {}
    /\ last.op = "sweep" =>
          \A id \in getClientsIds :
             now - recs[clients[id]].lastPing < config.alive_timeout
    /\ last.op = "sweep" =>
          \A id \in last.evicted : clients[id] = 0 /\ queues[id] = <<>>

\* C8: every `message` event carries a message whose src is the id of the
\* identity whose transport received the frame, whatever the frame says.
C8_SrcIsSender ==
    last.op = "frame" =>
        \A i \in 1..Len(last.trace) :
            last.trace[i].name \in {"message", "app.message", "handle"} =>
                /\ last.trace[i].client = socks[last.h].client
                /\ last.trace[i].message.src = recs[socks[last.h].client].id

C8_Witness ==
    /\ last.op = "frame"
    /\ Named(last.trace, {"message"}) # <<>>
    /\ last.frame.form = "text"
    /\ last.frame.value.src # NoId
    /\ last.frame.value.src # recs[socks[last.h].client].id

\* C9: a frame that does not parse into a Message yields one `error` event
\* and no `message` or `close` event and changes neither the registry nor
\* the connection; a well-formed frame yields a `message` event, also on a
\* connection whose previous frame failed to parse.
C9_WellFormed(f) == (f.form = "text" => f.json) /\ f.value.kind = "object"

C9_ParseFailureKeepsSession ==
    [][last'.op = "frame" =>
        IF C9_WellFormed(last'.frame)
        THEN Len(Named(last'.trace, {"message"})) = 1
             /\ Named(last'.trace, {"error", "close"}) = <<>>
        ELSE /\ last'.trace = <<Ev("error", socks[last'.h].client, NoMessage),
                                Ev("app.error", socks[last'.h].client, NoMessage)>>
             /\ socks' = socks /\ clients' = clients /\ recs' = recs
             /\ queues' = queues /\ disconnects' = disconnects]_vars

C9_Witness ==
    /\ last.op = "frame"
    /\ last.outcome = "error"
    /\ nframes < MaxFrames
    /\ socks[last.h].st = "open"
    /\ clients[recs[socks[last.h].client].id] = socks[last.h].client
    /\ recs[socks[last.h].client].socket = last.h

\* C10: the disconnect of handle h, whose listeners hold identity c: if c
\* still has h attached, c's id is removed from the Realm and `close` is
\* emitted once with c; otherwise (h superseded, or detached by the
\* sweeper) nothing changes in the registry and nothing is emitted.
C10_DisconnectGuard ==
    [][last'.op = "disconnect" =>
        LET h == last'.h
            c == socks[h].client
        IN  IF c # 0 /\ recs[c].socket = h
            THEN /\ clients' = [clients EXCEPT ![recs[c].id] = 0]
                 /\ Count(last'.trace, Ev("close", c, NoMessage)) = 1
                 /\ Count(last'.trace, Ev("app.disconnect", c, NoMessage)) = 1
                 /\ disconnects' = [disconnects EXCEPT ![c] = @ + 1]
            ELSE /\ clients' = clients /\ recs' = recs /\ queues' = queues
                 /\ last'.trace = <<>>
                 /\ disconnects' = disconnects]_vars

C10_Witness ==
    /\ last.op = "disconnect"
    /\ last.outcome = "ignored"
    /\ socks[last.h].client # 0
    /\ clients[last.id] = socks[last.h].client
    /\ recs[socks[last.h].client].socket \notin {0, last.h}
    /\ socks[recs[socks[last.h].client].socket].st = "open"

\* C11: once the caller's latest call of the sweeper is stop(), no sweep
\* pass is scheduled and so none runs until the caller calls start(),
\* also when the stop() was made from the close callback during a pass.
C11_StopIsFinal == sweeper.stopped => timers = {}

\* C12: whatever start() and stop() calls are made, also from the close
\* callback during a pass, at most one timeout of the sweeper is pending at
\* any instant.
C12_OneTimerPending == Cardinality(timers) <= 1

\* C13: a sweep pass in which closing a transport raises an error still
\* evicts every stale id of its snapshot, each with its queue and one call
\* of the close callback, and, unless the caller has stopped the sweeper,
\* leaves the next pass scheduled.
C13_CloseFailureSwallowed ==
    [][(last'.op = "sweep" /\ last'.outcome = "thrown" /\ ~sweeper'.stopped)
       => /\ \A id \in staleIds :
                /\ clients'[id] = 0
                /\ queues'[id] = <<>>
                /\ disconnects'[clients[id]] = disconnects[clients[id]] + 1
          /\ \E t \in timers' : t.id = sweeper'.timeoutId]_vars

\* C14: an accepted handshake registers, or reconnects, the identity whose
\* id is the id of the handshake parameters, under either adapter.
C14_RegistersPresentedId ==
    [][Accepted(last')
       => /\ last'.id = last'.query.id
          /\ clients'[last'.query.id] = socks'[last'.h].client
          /\ recs'[socks'[last'.h].client].id = last'.query.id]_vars

\* C15: a frame that arrives on a handle whose identity has another handle
\* attached by a later reconnect yields no `message` event.
C15_SupersededIsSilent ==
    [][(/\ last'.op = "frame"
        /\ clients[recs[socks[last'.h].client].id] = socks[last'.h].client
        /\ recs[socks[last'.h].client].socket \notin {0, last'.h})
       => Named(last'.trace, {"message", "app.message"}) = <<>>]_vars

\* C16: a sweep pass that comes right after a reconnect has attached a new
\* handle to an identity does not evict that identity.
C16_ReconnectIsActivity ==
    [][(last.op = "handshake" /\ last.outcome = "reconnect"
        /\ last'.op = "sweep")
       => last.id \notin last'.evicted]_vars

\* C17: the handler that attaches a handle to an identity hands the
\* identity's pending messages to the message handler in enqueue order,
\* between the gateway's `connection` and the application's `connection`
\* with no `message` event in between, and empties the queue; so an
\* identity with a handle attached never has a pending message that a
\* newly routed one could overtake.
C17_DrainBeforeRoute ==
    [][/\ Accepted(last') =>
            LET r == socks'[last'.h].client
                q == queues[last'.id]
            IN  /\ recs'[r].socket = last'.h
                /\ last'.trace =
                      <<Ev("connection", r, NoMessage)>>
                      \o [i \in 1..Len(q) |-> Ev("handle", r, q[i].message)]
                      \o <<Ev("app.connection", r, NoMessage)>>
                /\ queues'[last'.id] = <<>>
       /\ \A id \in AllIds :
            (clients'[id] # 0 /\ recs'[clients'[id]].socket # 0)
               => queues'[id] = <<>>]_vars

C17_Witness ==
    /\ Accepted(last)
    /\ Len(Handled(last.trace)) = 2
    /\ Handled(last.trace)[1] # Handled(last.trace)[2]
    /\ queues[last.id] = <<>>

\* C18: a sweep pass leaves every identity whose now - lastSeen is below
\* alive_timeout as it was (record, handle, queue, no close callback) and
\* evicts every identity whose now - lastSeen is alive_timeout or more,
\* the one at exactly alive_timeout included.
C18_FreshUntouched ==
    [][last'.op = "sweep" =>
        \A id \in getClientsIds :
            LET r == clients[id]
            IN  IF now - recs[r].lastPing < config.alive_timeout
                THEN /\ clients'[id] = r
                     /\ recs'[r] = recs[r]
                     /\ queues'[id] = queues[id]
                     /\ disconnects'[r] = disconnects[r]
                     /\ recs[r].socket # 0 =>
                           socks'[recs[r].socket] = socks[recs[r].socket]
                     /\ id \notin last'.evicted
                ELSE /\ clients'[id] = 0
                     /\ id \in last'.evicted]_vars

C18_Witness ==
    /\ last.op = "sweep"
    /\ \E r \in Handles :
          /\ recs[r].id \in last.evicted
          /\ disconnects[r] = 1
          /\ now - recs[r].lastPing = config.alive_timeout
    /\ \E id \in getClientsIds :
          /\ now - recs[clients[id]].lastPing = Step
          /\ recs[clients[id]].socket # 0

\* C19: an identity gets at most one application `disconnect`; after it the
\* identity is neither registered nor attached to a handle, so the close
\* event of a transport that the sweeper closed is ignored; and the sweeper
\* calls the close callback for an identity right after removing it.
C19_OneDisconnect ==
    /\ \A r \in Handles : disconnects[r] <= 1
    /\ \A r \in Handles :
          disconnects[r] = 1 => recs[r].socket = 0 /\ clients[recs[r].id] # r
    /\ last.op = "sweep" =>
          \A i \in 1..Len(last.trace) :
              last.trace[i].name = "app.disconnect" =>
                  /\ i > 1
                  /\ last.trace[i - 1]
                        = Ev("removeClientById", last.trace[i].client, NoMessage)
                  /\ clients[recs[last.trace[i].client].id] = 0

C19_Witness ==
    /\ last.op = "disconnect"
    /\ last.outcome = "ignored"
    /\ socks[last.h].client # 0
    /\ disconnects[socks[last.h].client] = 1
    /\ recs[socks[last.h].client].socket = 0
    /\ \A g \in Handles : socks[g].client = socks[last.h].client => g = last.h

\* C20: an error raised by the socket server reaches the application as
\* one `error` event, however many connections were made before, and
\* changes nothing in the registry.
C20_OneErrorEvent ==
    [][last'.op = "socketerror" =>
        /\ Len(Named(last'.trace, {"error"})) = 1
        /\ Len(Named(last'.trace, {"app.error"})) = 1
        /\ clients' = clients /\ recs' = recs /\ queues' = queues]_vars

====
